---- MODULE Spec2Model ----
(***************************************************************************)
(* A model of the NotebookLM python bridge:                                *)
(*   notebooklm_upload.py  (list | upload)      specification Spec         *)
(*   notebooklm_auth.py    (check | authenticate) specification SpecAuth   *)
(* and of the per-source UI flows as pure functions of the page            *)
(*   add_website_source / add_file_source / create_notebook  SpecSource    *)
(* The browser and the web page are external: every answer they give       *)
(* (an element found or not, a call raising) is a nondeterministic input.  *)
(***************************************************************************)
EXTENDS Naturals, Sequences, FiniteSets, TLC

VARIABLES
    argv,       \* sys.argv[1:] of the running process
    pc,         \* position of the process in its program
    stateFile,  \* content of state.json (STATE_PATH / get_state_path())
    browser,    \* "none" | "open" | "closed" (browser.close() was called)
    context,    \* TRUE once browser.new_context(...) has returned
    calls,      \* names of the browser capabilities invoked so far
    sources,    \* the parsed `sources` argument of upload_sources
    notebooks,  \* local `notebooks` of upload_sources / list_notebooks (titles)
    waitExpired, \* history: the wait for the first notebook card timed out
    target,     \* index in `notebooks` of target_notebook, 0 for None
    created,    \* TRUE once create_notebook has been called in this run
    idx,        \* number of the source the loop is at, 0 before the loop
    results,    \* local `results` of upload_sources
    attempts,   \* history: the outcome of each add_*_source call, in order
    persisted,  \* history: storage_state(path=...) has written state.json
    result,     \* `result` of main
    stdout,     \* what the process has written to standard output
    stderr,     \* TRUE once something was written to standard error
    exitCode,   \* << >> while running, then << status >>
    page,       \* SpecSource: the page the flow runs against
    req,        \* SpecSource: the source request / notebook name
    trace,      \* SpecSource: the page calls the flow made, in order
    outcome,    \* SpecSource: what the flow returned
    procs,      \* SpecRace: per invocation, its position and what it holds
    writes      \* SpecRace, history: the writes of state.json, in order

vars == <<argv, pc, stateFile, browser, context, calls, sources, notebooks,
          waitExpired,
          target, created, idx, results, attempts, persisted, result, stdout,
          stderr, exitCode, page, req, trace, outcome, procs, writes>>

(***************************************************************************)
(* Bounds of the model.                                                    *)
(***************************************************************************)
MaxSources == 2
MaxNotebooks == 2
MaxCookies == 2

Min(S) == CHOOSE x \in S : \A y \in S : x <= y

SeqsUpTo(S, n) == UNION {[1..k -> S] : k \in 0..n}

(***************************************************************************)
(* Strings the code inspects character by character are sequences of       *)
(* characters; str.lower() and the `in` substring test work on them.       *)
(***************************************************************************)
LowerChar(c) ==
    CASE c = "M" -> "m"
      [] c = "Y" -> "y"
      [] c = "U" -> "u"
      [] c = "N" -> "n"
      [] OTHER -> c

lower(s) == [i \in 1..Len(s) |-> LowerChar(s[i])]

\* Python's `needle in hay` for strings
Contains(hay, needle) ==
    \E k \in 0..Len(hay) :
        /\ k + Len(needle) <= Len(hay)
        /\ \A i \in 1..Len(needle) : hay[k + i] = needle[i]

Get(d, k, default) == IF k \in DOMAIN d THEN d[k] ELSE default

(***************************************************************************)
(* The page, as the flows see it.  A page answers query_selector from the  *)
(* set `present` of selectors that match an element when queried, and the  *)
(* call number `raiseAt` of a flow raises (0, or a number past the flow's  *)
(* last call: no call raises).                                             *)
(***************************************************************************)
NotFound == "None"
ErrorMessage == "Timeout 30000ms exceeded."

AddSourceStrategies ==
    << "button:has-text(\"Add source\")", "[data-test-id=\"add-source-button\"]" >>
WebsiteStrategies ==
    << "button:has-text(\"Website\")", "[data-test-id=\"source-type-website\"]" >>
UrlInputStrategies ==
    << "input[type=\"url\"], input[placeholder*=\"URL\"]",
       "[data-test-id=\"website-url-input\"]" >>
UploadStrategies ==
    << "button:has-text(\"Upload\")", "[data-test-id=\"source-type-upload\"]" >>
FileInputStrategies == << "input[type=\"file\"]" >>
CreateStrategies ==
    << "button:has-text(\"Create new\")", "[data-test-id=\"create-notebook-button\"]" >>
NameInputStrategies == << "input[placeholder*=\"name\"]" >>

Range(s) == {s[i] : i \in 1..Len(s)}

WebsiteSelectors ==
    Range(AddSourceStrategies) \cup Range(WebsiteStrategies) \cup Range(UrlInputStrategies)
FileSelectors ==
    Range(AddSourceStrategies) \cup Range(UploadStrategies) \cup Range(FileInputStrategies)
CreateSelectors == Range(CreateStrategies) \cup Range(NameInputStrategies)

Call(op, arg, val) == [op |-> op, arg |-> arg, val |-> val]

\* the capabilities a sequence of calls uses
Ops(t) == {t[i].op : i \in 1..Len(t)}

\* the result of the fallback query is dropped
LocateHit_first_only(present, strategies) ==
    IF strategies[1] \in present THEN strategies[1] ELSE NotFound

\* x = page.query_selector(s1); if not x: x = page.query_selector(s2)
\* the selector that located the element, or NotFound
LocateHit(present, strategies) ==
    LET hits == {i \in 1..Len(strategies) : strategies[i] \in present}
    IN  IF hits = {} THEN NotFound ELSE strategies[Min(hits)]

\* every strategy queried, whatever the earlier ones returned
LocateQueries_all(present, strategies) ==
    [i \in 1..Len(strategies) |-> Call("query_selector", strategies[i], "")]

\* the query_selector calls that this makes, in order
LocateQueries(present, strategies) ==
    LET hits == {i \in 1..Len(strategies) : strategies[i] \in present}
        n == IF hits = {} THEN Len(strategies) ELSE Min(hits)
    IN  [i \in 1..n |-> Call("query_selector", strategies[i], "")]

Failure(msg) == [success |-> FALSE, error |-> msg]

\* try: ... except Exception as e: <handler>
\* `full` is the flow when no call raises; call number raiseAt raising cuts it there
Try(full, raiseAt, handler) ==
    IF raiseAt \in 1..Len(full.trace)
    THEN [trace |-> SubSeq(full.trace, 1, raiseAt), ret |-> handler, raised |-> TRUE]
    ELSE [trace |-> full.trace, ret |-> full.ret, raised |-> FALSE]

add_website_source(pg, url) ==
    LET add_btn == LocateHit(pg.present, AddSourceStrategies)
        q1 == LocateQueries(pg.present, AddSourceStrategies)
        website_option == LocateHit(pg.present, WebsiteStrategies)
        q2 == q1 \o << Call("click", add_btn, "") >>
                 \o LocateQueries(pg.present, WebsiteStrategies)
        url_input == LocateHit(pg.present, UrlInputStrategies)
        q3 == q2 \o << Call("click", website_option, "") >>
                 \o LocateQueries(pg.present, UrlInputStrategies)
        full ==
            IF add_btn = NotFound
            THEN [trace |-> q1, ret |-> Failure("Could not find Add Source button")]
            ELSE IF website_option = NotFound
            THEN [trace |-> q2, ret |-> Failure("Could not find Website option")]
            ELSE IF url_input = NotFound
            THEN [trace |-> q3, ret |-> Failure("Could not find URL input")]
            ELSE [trace |-> q3 \o << Call("fill", url_input, url),
                                     Call("press", url_input, "Enter") >>,
                  ret |-> [success |-> TRUE, url |-> url]]
    IN  Try(full, pg.raiseAt, Failure(ErrorMessage))

\* the local paths that exist
ExistingPaths == {"p1", "sources.json", "notes.txt"}

os_path_exists_always(path) == TRUE

\* os.path.exists(path)
os_path_exists(path) == path \in ExistingPaths

\* the Upload option handled like the Website option: required
file_flow_upload_required(pg, file_path) ==
    LET add_btn == LocateHit(pg.present, AddSourceStrategies)
        q1 == LocateQueries(pg.present, AddSourceStrategies)
        file_option == LocateHit(pg.present, UploadStrategies)
        q2 == q1 \o << Call("click", add_btn, "") >>
                 \o LocateQueries(pg.present, UploadStrategies)
        file_input == LocateHit(pg.present, FileInputStrategies)
        q3 == q2 \o << Call("click", file_option, "") >>
                 \o LocateQueries(pg.present, FileInputStrategies)
        full ==
            IF add_btn = NotFound
            THEN [trace |-> q1, ret |-> Failure("Could not find Add Source button")]
            ELSE IF file_option = NotFound
            THEN [trace |-> q2, ret |-> Failure("Could not find Upload option")]
            ELSE IF file_input # NotFound
            THEN [trace |-> q3 \o << Call("set_input_files", file_input, file_path) >>,
                  ret |-> [success |-> TRUE, file |-> file_path]]
            ELSE [trace |-> q3, ret |-> Failure("Could not find file input")]
    IN  Try(full, pg.raiseAt, Failure(ErrorMessage))

\* add_file_source once the path is known to exist
file_flow(pg, file_path) ==
    LET add_btn == LocateHit(pg.present, AddSourceStrategies)
        q1 == LocateQueries(pg.present, AddSourceStrategies)
        file_option == LocateHit(pg.present, UploadStrategies)
        q2 == q1 \o << Call("click", add_btn, "") >>
                 \o LocateQueries(pg.present, UploadStrategies)
                 \o (IF file_option # NotFound
                     THEN << Call("click", file_option, "") >> ELSE << >>)
        file_input == LocateHit(pg.present, FileInputStrategies)
        q3 == q2 \o LocateQueries(pg.present, FileInputStrategies)
        full ==
            IF add_btn = NotFound
            THEN [trace |-> q1, ret |-> Failure("Could not find Add Source button")]
            ELSE IF file_input # NotFound
            THEN [trace |-> q3 \o << Call("set_input_files", file_input, file_path) >>,
                  ret |-> [success |-> TRUE, file |-> file_path]]
            ELSE [trace |-> q3, ret |-> Failure("Could not find file input")]
    IN  Try(full, pg.raiseAt, Failure(ErrorMessage))

\* the path tested only after the UI flow has run
add_file_source_late(pg, file_path) ==
    LET r == file_flow(pg, file_path)
    IN  IF ~ os_path_exists(file_path)
        THEN [trace |-> r.trace, ret |-> Failure("File not found: " \o file_path),
              raised |-> FALSE]
        ELSE r

add_file_source(pg, file_path) ==
    IF ~ os_path_exists(file_path)
    THEN [trace |-> << >>, ret |-> Failure("File not found: " \o file_path),
          raised |-> FALSE]
    ELSE file_flow(pg, file_path)

\* `return True` one level out: True also when no create button was found
create_notebook_true_unless_raised(pg, name) ==
    LET create_btn == LocateHit(pg.present, CreateStrategies)
        q1 == LocateQueries(pg.present, CreateStrategies)
        name_input == LocateHit(pg.present, NameInputStrategies)
        q2 == q1 \o << Call("click", create_btn, "") >>
                 \o LocateQueries(pg.present, NameInputStrategies)
        full ==
            IF create_btn = NotFound
            THEN [trace |-> q1, ret |-> TRUE]
            ELSE IF name_input # NotFound
            THEN [trace |-> q2 \o << Call("fill", name_input, name),
                                     Call("press", name_input, "Enter") >>,
                  ret |-> TRUE]
            ELSE [trace |-> q2, ret |-> TRUE]
    IN  Try(full, pg.raiseAt, FALSE)

\* returns a bool; an exception is reported on stderr and gives False
create_notebook(pg, name) ==
    LET create_btn == LocateHit(pg.present, CreateStrategies)
        q1 == LocateQueries(pg.present, CreateStrategies)
        name_input == LocateHit(pg.present, NameInputStrategies)
        q2 == q1 \o << Call("click", create_btn, "") >>
                 \o LocateQueries(pg.present, NameInputStrategies)
        full ==
            IF create_btn = NotFound
            THEN [trace |-> q1, ret |-> FALSE]
            ELSE IF name_input # NotFound
            THEN [trace |-> q2 \o << Call("fill", name_input, name),
                                     Call("press", name_input, "Enter") >>,
                  ret |-> TRUE]
            ELSE [trace |-> q2, ret |-> TRUE]
    IN  Try(full, pg.raiseAt, FALSE)

\* the longest flow: three located controls, two clicks, fill and press
MaxCalls ==
    Len(AddSourceStrategies) + Len(WebsiteStrategies) + Len(UrlInputStrategies) + 4

Pages(selectors) ==
    {[present |-> P, raiseAt |-> r] : P \in SUBSET selectors, r \in 0..MaxCalls}

(***************************************************************************)
(* The notebook list of the page: get_notebooks.                           *)
(***************************************************************************)
Untitled == << "U", "n", "t", "i", "t", "l", "e", "d" >>

Card(hasTitle, text) == [hasTitle |-> hasTitle, text |-> text]

\* the notebook cards a page can show
Cards == { Card(TRUE, << "M", "y" >>), Card(FALSE, << >>) }

\* what the page does during get_notebooks: the cards it shows and whether
\* the wait for the first card times out, a later call on card at+1 times
\* out, or a call raises another error
NotebookPages ==
    {[cards |-> c, fail |-> f, at |-> k] :
        c \in SeqsUpTo(Cards, MaxNotebooks),
        f \in {"none", "wait_timeout", "card_timeout", "error"},
        k \in 0..MaxNotebooks}

CardTitle(card) == IF card.hasTitle THEN card.text ELSE Untitled

\* no `except PlaywrightTimeout`: a timeout leaves get_notebooks as an exception
get_notebooks_timeout_raises(np) ==
    LET n == CASE np.fail = "wait_timeout" -> 0
               [] np.fail = "card_timeout" -> Min({np.at, Len(np.cards)})
               [] OTHER -> Len(np.cards)
    IN  [ret |-> [i \in 1..n |-> CardTitle(np.cards[i])],
         raised |-> np.fail # "none",
         expired |-> np.fail = "wait_timeout",
         ops |-> {"wait_for_selector"} \cup
                 (IF np.fail = "wait_timeout" THEN {} ELSE {"query_selector_all"}) \cup
                 (IF n > 0 THEN {"query_selector", "inner_text"} ELSE {})]

get_notebooks(np) ==
    LET n == CASE np.fail = "wait_timeout" -> 0
               [] np.fail = "card_timeout" -> Min({np.at, Len(np.cards)})
               [] OTHER -> Len(np.cards)
    IN  [ret |-> [i \in 1..n |-> CardTitle(np.cards[i])],
         raised |-> np.fail = "error",
         expired |-> np.fail = "wait_timeout",
         ops |-> {"wait_for_selector"} \cup
                 (IF np.fail = "wait_timeout" THEN {} ELSE {"query_selector_all"}) \cup
                 (IF n > 0 THEN {"query_selector", "inner_text"} ELSE {})]

\* the titles compared as they are
target_notebook_exact(nbs, notebook_name) ==
    LET m == {i \in 1..Len(nbs) : nbs[i] = notebook_name}
    IN  IF m = {} THEN 0 ELSE Min(m)

\* for nb in notebooks: if nb['title'].lower() == notebook_name.lower(): ... break
target_notebook(nbs, notebook_name) ==
    LET m == {i \in 1..Len(nbs) : lower(nbs[i]) = lower(notebook_name)}
    IN  IF m = {} THEN 0 ELSE Min(m)

(***************************************************************************)
(* The persisted session state, state.json.                                *)
(***************************************************************************)
Marker == << "g", "o", "o", "g", "l", "e" >>
GoogleDomain == << ".", "g", "o", "o", "g", "l", "e", ".", "c", "o", "m" >>
OtherDomain == << "g", "o", "o", "g", ".", "l", "e" >>

\* one element of the "cookies" list of a state file
Cookie(t, domain) == [t |-> t, domain |-> domain]
BrowserCookies == { Cookie("dict", GoogleDomain), Cookie("dict", OtherDomain) }
\* elements only a file not written by the browser can hold: a cookie with
\* no "domain" key, one whose domain is null, an element that is no object
ForeignCookies ==
    { Cookie("nodomain", << >>), Cookie("nulldomain", << >>), Cookie("notdict", << >>) }

NoFile == [kind |-> "absent"]
Unparsable == [kind |-> "text"]
NotAnObject == [kind |-> "json", t |-> "list"]
NoCookiesKey == [kind |-> "json", t |-> "dict", hasCookies |-> FALSE, cookies |-> << >>]
SessionState(cookies) ==
    [kind |-> "json", t |-> "dict", hasCookies |-> TRUE, cookies |-> cookies]

\* what context.storage_state(path=...) can write
CapturedStates == {SessionState(c) : c \in SeqsUpTo(BrowserCookies, MaxCookies)}

\* any content state.json can have
StateFiles ==
    {NoFile, Unparsable, NotAnObject, NoCookiesKey} \cup
    {SessionState(c) : c \in SeqsUpTo(BrowserCookies \cup ForeignCookies, MaxCookies)}

\* the session states the replay runs start from and end with
ReplayStates ==
    { SessionState(<< >>), SessionState(<< Cookie("dict", GoogleDomain) >>) }

(***************************************************************************)
(* notebooklm_auth.py: check_auth_status.                                  *)
(***************************************************************************)
NotAuthenticated(msg) == [authenticated |-> FALSE, message |-> msg]

\* c.get('domain', ''), for a cookie that is an object with a string domain
CookieDomain(c) == IF c.t = "dict" THEN c.domain ELSE << >>

IsGoogleCookie_exact(c) == CookieDomain(c) = Marker

\* 'google' in c.get('domain', '')
IsGoogleCookie(c) == Contains(CookieDomain(c), Marker)

check_auth_status(f) ==
    IF f.kind = "absent"
    THEN NotAuthenticated("No authentication state found. Run authentication first.")
    ELSE IF f.kind = "text" \/ f.t # "dict"
    THEN NotAuthenticated("Error reading state")
    ELSE LET cookies == IF f.hasCookies THEN f.cookies ELSE << >>
             google_cookies == SelectSeq(cookies, IsGoogleCookie)
         IN  IF \E i \in 1..Len(cookies) : cookies[i].t \in {"notdict", "nulldomain"}
             THEN NotAuthenticated("Error reading state")
             ELSE IF google_cookies # << >>
             THEN [authenticated |-> TRUE,
                   message |-> "Authentication state found.",
                   cookie_count |-> Len(google_cookies)]
             ELSE NotAuthenticated("No Google cookies found in state. Re-authenticate.")

(***************************************************************************)
(* The command line of notebooklm_upload.py.                               *)
(***************************************************************************)
\* a JSON value: a list of items, or something that is no list
JsonList(items) == [kind |-> "list", items |-> items]
JsonNumber == [kind |-> "number", items |-> << >>]

\* an item of the sources list: an object, or a JSON string
Source(type, value) == [t |-> "dict", d |-> [type |-> type, value |-> value]]
NotASource == [t |-> "str", d |-> [text |-> "oops"]]

SourceItems ==
    { Source("website", "u1"), Source("file", "p1"), Source("file", "p2"),
      Source("audio", "u1"), NotASource }

\* a text: valid JSON denoting `value`, or no JSON at all (a path, a note)
JsonText(value) == [json |-> TRUE, value |-> value, text |-> ""]
PlainText(text) == [json |-> FALSE, value |-> JsonNumber, text |-> text]

\* json.loads / json.load: the value, or JSONDecodeError
json_loads(t) == [ok |-> t.json, value |-> t.value]

\* the content of the local files that exist and are read as sources
FileContent(path) ==
    IF path = "sources.json"
    THEN JsonText(JsonList(<< Source("website", "u1"), Source("file", "p2") >>))
    ELSE PlainText("not json")

NotebookNames == { << "m", "Y" >>, << "u", "n", "t", "i", "t", "l", "e", "d" >> }

SourcesArgs ==
    {JsonText(JsonList(l)) : l \in SeqsUpTo(SourceItems, MaxSources)} \cup
    {JsonText(JsonNumber), PlainText("sources.json"), PlainText("notes.txt"),
     PlainText("nowhere.json")}

UploadArgvs ==
    { << >>, << "list" >>, << "upload" >>, << "frobnicate" >> } \cup
    {<< "upload", n >> : n \in NotebookNames} \cup
    {<< "upload", n, a >> : n \in NotebookNames, a \in SourcesArgs}

Json(v) == [kind |-> "json", value |-> v]
NoResult == [none |-> TRUE]
NoExit == << >>
NoPage == [present |-> {}, raiseAt |-> 0]

(***************************************************************************)
(* notebooklm_upload.py as a process: specification Spec.                  *)
(***************************************************************************)
flowVars == <<page, req, trace, outcome>>
runVars ==
    <<sources, notebooks, waitExpired, target, created, idx, results, attempts>>

raceVars == <<procs, writes>>

\* no concurrent invocations
RaceIdle ==
    /\ procs = << >>
    /\ writes = << >>

FlowIdle ==
    /\ page = NoPage
    /\ req = [type |-> "none"]
    /\ trace = << >>
    /\ outcome = NoResult

\* a process that has not run yet
ProcessStart ==
    /\ browser = "none"
    /\ context = FALSE
    /\ calls = {}
    /\ sources = JsonNumber
    /\ notebooks = << >>
    /\ waitExpired = FALSE
    /\ target = 0
    /\ created = FALSE
    /\ idx = 0
    /\ results = NoResult
    /\ attempts = << >>
    /\ persisted = FALSE
    /\ result = NoResult
    /\ stdout = << >>
    /\ stderr = FALSE
    /\ exitCode = NoExit

Init ==
    /\ argv \in UploadArgvs
    /\ stateFile \in {NoFile} \cup ReplayStates
    /\ pc = "import"
    /\ ProcessStart
    /\ FlowIdle
    /\ RaceIdle

\* print(json.dumps(obj)); sys.exit(1)
PrintAndExit(obj) ==
    /\ stdout' = Append(stdout, Json(obj))
    /\ exitCode' = << 1 >>
    /\ pc' = "exit"
    /\ UNCHANGED <<stderr, result>>

\* an exception nothing catches: the traceback goes to stderr, status 1;
\* leaving `with sync_playwright()` this way stops the driver and with it a
\* browser that browser.close() did not close
Uncaught ==
    /\ stderr' = TRUE
    /\ exitCode' = << 1 >>
    /\ pc' = "exit"
    /\ UNCHANGED <<stdout, result>>

PlaywrightMissing ==
    [success |-> FALSE,
     error |-> "Playwright not installed. Run: pip install playwright && playwright install chromium"]

\* try: from playwright.sync_api import ... except ImportError: print; sys.exit(1)
ImportPlaywright(next) ==
    \E installed \in BOOLEAN :
        IF installed
        THEN /\ pc' = next
             /\ UNCHANGED <<result, stdout, stderr, exitCode>>
        ELSE PrintAndExit(PlaywrightMissing)

upload_import ==
    /\ pc = "import"
    /\ ImportPlaywright("main")
    /\ UNCHANGED <<argv, stateFile, browser, context, calls, runVars, persisted,
                   flowVars, raceVars>>

upload_main ==
    /\ pc = "main"
    /\ UNCHANGED <<argv, stateFile, browser, context, calls, notebooks, waitExpired, target,
                   created, idx, results, attempts, persisted, flowVars, raceVars>>
    /\ IF Len(argv) < 1
       THEN /\ PrintAndExit([error |-> "Usage: notebooklm_upload.py <list|upload> [args...]"])
            /\ UNCHANGED sources
       ELSE IF argv[1] = "list"
       THEN /\ pc' = "list_notebooks"
            /\ UNCHANGED <<sources, result, stdout, stderr, exitCode>>
       ELSE IF argv[1] = "upload"
       THEN IF Len(argv) < 3
            THEN /\ PrintAndExit([error |->
                      "Usage: notebooklm_upload.py upload <notebook_name> <sources_json>"])
                 /\ UNCHANGED sources
            ELSE LET sources_json == argv[3]
                     parsed == json_loads(sources_json)
                     loaded == json_loads(FileContent(sources_json.text))
                 IN  IF parsed.ok
                     THEN /\ sources' = parsed.value
                          /\ pc' = "upload_sources"
                          /\ UNCHANGED <<result, stdout, stderr, exitCode>>
                     ELSE IF os_path_exists(sources_json.text)
                     THEN IF loaded.ok
                          THEN /\ sources' = loaded.value
                               /\ pc' = "upload_sources"
                               /\ UNCHANGED <<result, stdout, stderr, exitCode>>
                          ELSE \* json.load raises inside the except clause
                               /\ Uncaught
                               /\ UNCHANGED sources
                     ELSE /\ PrintAndExit([error |-> "Invalid sources JSON"])
                          /\ UNCHANGED sources
       ELSE /\ result' = [error |-> "Unknown action: " \o argv[1]]
            /\ pc' = "print"
            /\ UNCHANGED <<sources, stdout, stderr, exitCode>>

state_exists_always(f) == TRUE

\* STATE_PATH.exists()
state_exists(f) == f # NoFile

NotAuthenticatedResult ==
    [success |-> FALSE, error |-> "Not authenticated. Run authentication first."]

ErrorResult(msg) == [success |-> FALSE, error |-> msg]

\* results["success"] = False; results["error"] = msg
SetError(r, msg) ==
    [success |-> FALSE, notebook |-> r.notebook, uploaded |-> r.uploaded,
     failed |-> r.failed, error |-> msg]

\* the state check and the initial results of upload_sources
upload_sources_enter ==
    /\ pc = "upload_sources"
    /\ UNCHANGED <<argv, stateFile, browser, context, calls, sources, notebooks, waitExpired,
                   target, created, idx, attempts, persisted, stdout, stderr,
                   exitCode, flowVars, raceVars>>
    /\ IF ~ state_exists(stateFile)
       THEN /\ result' = NotAuthenticatedResult
            /\ pc' = "print"
            /\ UNCHANGED results
       ELSE /\ results' = [success |-> TRUE, notebook |-> argv[2],
                           uploaded |-> << >>, failed |-> << >>]
            /\ pc' = "upload_open"
            /\ UNCHANGED result

\* browser = p.chromium.launch(); context = browser.new_context(storage_state=...);
\* page = context.new_page()  -- all three outside any try
OpenBrowser(next) ==
    \E raises \in {"none", "launch", "new_context", "new_page"} :
        /\ calls' = calls \cup
               CASE raises = "launch" -> {"launch"}
                 [] raises = "new_context" -> {"launch", "new_context"}
                 [] OTHER -> {"launch", "new_context", "new_page"}
        /\ context' = (raises \in {"none", "new_page"})
        /\ IF raises = "none"
           THEN /\ browser' = "open"
                /\ pc' = next
                /\ UNCHANGED <<result, stdout, stderr, exitCode>>
           ELSE /\ browser' = IF raises = "launch" THEN "none" ELSE "stopped"
                /\ Uncaught

upload_sources_open ==
    /\ pc = "upload_open"
    /\ OpenBrowser("upload_goto")
    /\ UNCHANGED <<argv, stateFile, runVars, persisted, flowVars, raceVars>>

\* except Exception as e: results["success"] = False; results["error"] = str(e)
UploadExcept(msg) ==
    /\ results' = SetError(results, msg)
    /\ pc' = "upload_finally"

\* page.goto(NOTEBOOKLM_URL); page.wait_for_load_state('networkidle')
upload_sources_goto ==
    /\ pc = "upload_goto"
    /\ UNCHANGED <<argv, stateFile, browser, context, sources, notebooks, waitExpired, target,
                   created, idx, attempts, persisted, result, stdout, stderr,
                   exitCode, flowVars, raceVars>>
    /\ \E raises \in {"none", "goto", "wait_for_load_state"} :
        /\ calls' = calls \cup
               (IF raises = "goto" THEN {"goto"} ELSE {"goto", "wait_for_load_state"})
        /\ IF raises = "none"
           THEN /\ pc' = "upload_get_notebooks"
                /\ UNCHANGED results
           ELSE UploadExcept(ErrorMessage)

\* notebooks = get_notebooks(page)
upload_sources_get_notebooks ==
    /\ pc = "upload_get_notebooks"
    /\ UNCHANGED <<argv, stateFile, browser, context, sources, target, created,
                   idx, attempts, persisted, result, stdout, stderr, exitCode,
                   flowVars, raceVars>>
    /\ \E np \in NotebookPages :
        LET got == get_notebooks(np)
        IN  /\ calls' = calls \cup got.ops
            /\ waitExpired' = got.expired
            /\ IF got.raised
               THEN /\ UploadExcept(ErrorMessage)
                    /\ UNCHANGED notebooks
               ELSE /\ notebooks' = got.ret
                    /\ pc' = "upload_resolve"
                    /\ UNCHANGED results

\* the position after source number i - 1 of the `for source in sources` loop
LoopPc(i) ==
    IF sources.kind = "list" /\ i > Len(sources.items)
    THEN "upload_finally"
    ELSE "upload_loop"

\* every way create_notebook can go: what it returns and what it used
CreateRuns ==
    [name \in NotebookNames |->
        {[ret |-> r.ret, ops |-> Ops(r.trace), raised |-> r.raised] :
            r \in {create_notebook(pg, name) : pg \in Pages(CreateSelectors)}}]

\* find the target notebook; click it, or create_notebook(page, notebook_name)
upload_sources_resolve ==
    /\ pc = "upload_resolve"
    /\ UNCHANGED <<argv, stateFile, browser, context, sources, notebooks, waitExpired,
                   attempts, persisted, result, stdout, exitCode, flowVars, raceVars>>
    /\ target' = target_notebook(notebooks, argv[2])
    /\ IF target' # 0
       THEN \* target_notebook['element'].click()
            /\ calls' = calls \cup {"click"}
            /\ created' = created
            /\ stderr' = stderr
            /\ \E raises \in BOOLEAN :
                IF raises
                THEN /\ UploadExcept(ErrorMessage)
                     /\ UNCHANGED idx
                ELSE /\ pc' = LoopPc(1)
                     /\ idx' = 1
                     /\ UNCHANGED results
       ELSE \E made \in CreateRuns[argv[2]] :
                /\ calls' = calls \cup made.ops
                /\ created' = TRUE
                /\ stderr' = (stderr \/ made.raised)
                /\ IF made.ret
                   THEN /\ pc' = LoopPc(1)
                        /\ idx' = 1
                        /\ UNCHANGED results
                   ELSE \* results["error"] = ...; return results
                        /\ results' = SetError(results, "Could not create notebook")
                        /\ pc' = "upload_finally"
                        /\ UNCHANGED idx

\* the pages a flow for this source type can meet
FlowPages(source_type) ==
    CASE source_type = "website" -> Pages(WebsiteSelectors)
      [] source_type = "file" -> Pages(FileSelectors)
      [] OTHER -> {NoPage}

\* the dispatch on source_type in the loop body
add_source(pg, source_type, value) ==
    CASE source_type = "website" -> add_website_source(pg, value)
      [] source_type = "file" -> add_file_source(pg, value)
      [] OTHER -> [trace |-> << >>, raised |-> FALSE,
                   ret |-> Failure("Unknown source type: " \o source_type)]

\* the values the source items carry
SourceValues ==
    {Get(s.d, "value", "") : s \in {x \in SourceItems : x.t = "dict"}}
SourceTypes ==
    {Get(s.d, "type", "website") : s \in {x \in SourceItems : x.t = "dict"}}

\* every way a flow over a source can go: what it returns and which page
\* capabilities it used
FlowRuns ==
    [source_type \in SourceTypes, value \in SourceValues |->
        {[ret |-> r.ret, ops |-> Ops(r.trace)] :
            r \in {add_source(pg, source_type, value) : pg \in FlowPages(source_type)}}]

\* a failed source also clears the success flag
Record_failure_clears_success(r, value, ret) ==
    IF ret.success
    THEN [r EXCEPT !.uploaded = Append(@, value)]
    ELSE [r EXCEPT !.success = FALSE,
                   !.failed = Append(@, [value |-> value,
                                         error |-> Get(ret, "error", "Unknown error")])]

\* a failure that is not recorded
Record_drop_failed(r, value, ret) ==
    IF ret.success THEN [r EXCEPT !.uploaded = Append(@, value)] ELSE r

\* the else missing: every source is recorded as failed, too
Record_no_else(r, value, ret) ==
    LET u == IF ret.success THEN [r EXCEPT !.uploaded = Append(@, value)] ELSE r
    IN  [u EXCEPT !.failed =
            Append(@, [value |-> value, error |-> Get(ret, "error", "Unknown error")])]

\* results['uploaded'].append(value) / results['failed'].append({...})
Record(r, value, ret) ==
    IF ret.success
    THEN [r EXCEPT !.uploaded = Append(@, value)]
    ELSE [r EXCEPT !.failed =
              Append(@, [value |-> value, error |-> Get(ret, "error", "Unknown error")])]

\* one pass of the loop body over sources[idx]
upload_sources_loop ==
    /\ pc = "upload_loop"
    /\ UNCHANGED <<argv, stateFile, browser, context, sources, notebooks, waitExpired, target,
                   created, persisted, result, stdout, stderr, exitCode, flowVars, raceVars>>
    /\ IF sources.kind # "list"
       THEN \* TypeError: the value is not iterable
            /\ UploadExcept("object is not iterable")
            /\ UNCHANGED <<calls, idx, attempts>>
       ELSE LET source == sources.items[idx]
            IN  IF source.t # "dict"
                THEN \* AttributeError: the item has no .get
                     /\ UploadExcept("object has no attribute 'get'")
                     /\ UNCHANGED <<calls, idx, attempts>>
                ELSE LET source_type == Get(source.d, "type", "website")
                         value == Get(source.d, "value", "")
                     IN  \E r \in FlowRuns[source_type, value] :
                                /\ results' = Record(results, value, r.ret)
                                /\ attempts' = Append(attempts,
                                       [index |-> idx, ok |-> r.ret.success])
                                /\ calls' = calls \cup r.ops
                                /\ idx' = idx + 1
                                /\ pc' = LoopPc(idx + 1)

\* finally: context.storage_state(path=str(STATE_PATH)); browser.close()
\* then `return results`, unless one of the two raises
upload_sources_finally ==
    /\ pc = "upload_finally"
    /\ UNCHANGED <<argv, context, runVars, flowVars, raceVars>>
    /\ \E raises \in {"none", "storage_state", "close"}, captured \in ReplayStates :
        /\ calls' = calls \cup
               (IF raises = "storage_state"
                THEN {"storage_state"} ELSE {"storage_state", "close"})
        /\ IF raises = "storage_state"
           THEN UNCHANGED <<stateFile, persisted>>
           ELSE /\ stateFile' = captured
                /\ persisted' = TRUE
        /\ IF raises = "none"
           THEN /\ browser' = "closed"
                /\ result' = results
                /\ pc' = "print"
                /\ UNCHANGED <<stdout, stderr, exitCode>>
           ELSE /\ browser' = "stopped"
                /\ Uncaught

(***************************************************************************)
(* list_notebooks.                                                         *)
(***************************************************************************)
list_notebooks_enter ==
    /\ pc = "list_notebooks"
    /\ UNCHANGED <<argv, stateFile, browser, context, calls, runVars, persisted,
                   stdout, stderr, exitCode, flowVars, raceVars>>
    /\ IF ~ state_exists(stateFile)
       THEN /\ result' = NotAuthenticatedResult
            /\ pc' = "print"
       ELSE /\ pc' = "list_open"
            /\ UNCHANGED result

list_notebooks_open ==
    /\ pc = "list_open"
    /\ OpenBrowser("list_run")
    /\ UNCHANGED <<argv, stateFile, runVars, persisted, flowVars, raceVars>>

\* try: goto, wait_for_load_state, get_notebooks, return {...}
\* except Exception as e: return {"success": False, "error": str(e)}
list_notebooks_run ==
    /\ pc = "list_run"
    /\ UNCHANGED <<argv, stateFile, browser, context, sources, target, created,
                   idx, results, attempts, persisted, stdout, stderr, exitCode,
                   flowVars, raceVars>>
    /\ pc' = "list_finally"
    /\ \E raises \in {"none", "goto", "wait_for_load_state"}, np \in NotebookPages :
        LET got == get_notebooks(np)
        IN  IF raises # "none"
            THEN /\ calls' = calls \cup
                        (IF raises = "goto" THEN {"goto"}
                         ELSE {"goto", "wait_for_load_state"})
                 /\ result' = ErrorResult(ErrorMessage)
                 /\ UNCHANGED <<notebooks, waitExpired>>
            ELSE /\ waitExpired' = got.expired
                 /\ calls' = calls \cup {"goto", "wait_for_load_state"} \cup got.ops
                 /\ IF got.raised
                    THEN /\ result' = ErrorResult(ErrorMessage)
                         /\ UNCHANGED notebooks
                    ELSE /\ notebooks' = got.ret
                         /\ result' = [success |-> TRUE, notebooks |-> got.ret,
                                       count |-> Len(got.ret)]

\* finally: browser.close()
list_notebooks_finally ==
    /\ pc = "list_finally"
    /\ UNCHANGED <<argv, stateFile, context, runVars, persisted, flowVars, raceVars>>
    /\ calls' = calls \cup {"close"}
    /\ \E raises \in BOOLEAN :
        IF raises
        THEN /\ browser' = "stopped"
             /\ Uncaught
        ELSE /\ browser' = "closed"
             /\ pc' = "print"
             /\ UNCHANGED <<result, stdout, stderr, exitCode>>

\* print(json.dumps(result)) at the end of main
print_result ==
    /\ pc = "print"
    /\ stdout' = Append(stdout, Json(result))
    /\ exitCode' = << 0 >>
    /\ pc' = "exit"
    /\ UNCHANGED <<argv, stateFile, browser, context, calls, runVars, persisted,
                   result, stderr, flowVars, raceVars>>

Next ==
    \/ upload_import
    \/ upload_main
    \/ upload_sources_enter
    \/ upload_sources_open
    \/ upload_sources_goto
    \/ upload_sources_get_notebooks
    \/ upload_sources_resolve
    \/ upload_sources_loop
    \/ upload_sources_finally
    \/ list_notebooks_enter
    \/ list_notebooks_open
    \/ list_notebooks_run
    \/ list_notebooks_finally
    \/ print_result

Spec == Init /\ [][Next]_vars

(***************************************************************************)
(* notebooklm_auth.py as a process, run again and again on the same        *)
(* state.json: specification SpecAuth.                                     *)
(***************************************************************************)
AuthArgvs == { << >>, << "check" >>, << "authenticate" >>, << "frobnicate" >> }

\* the seven print() calls of authenticate_interactive: text on stdout
Banner ==
    [i \in 1..7 |-> [kind |-> "text", value |-> NoResult]]

InitAuth ==
    /\ argv \in AuthArgvs
    /\ stateFile \in StateFiles
    /\ pc = "auth_import"
    /\ ProcessStart
    /\ FlowIdle
    /\ RaceIdle

auth_import ==
    /\ pc = "auth_import"
    /\ ImportPlaywright("auth_main")
    /\ UNCHANGED <<argv, stateFile, browser, context, calls, runVars, persisted,
                   flowVars, raceVars>>

auth_main ==
    /\ pc = "auth_main"
    /\ UNCHANGED <<argv, stateFile, browser, context, calls, runVars, persisted,
                   flowVars, raceVars>>
    /\ IF Len(argv) < 1
       THEN PrintAndExit([error |-> "Usage: notebooklm_auth.py <check|authenticate>"])
       ELSE IF argv[1] = "check"
       THEN /\ result' = check_auth_status(stateFile)
            /\ pc' = "auth_print"
            /\ UNCHANGED <<stdout, stderr, exitCode>>
       ELSE IF argv[1] = "authenticate"
       THEN /\ pc' = "authenticate_launch"
            /\ UNCHANGED <<result, stdout, stderr, exitCode>>
       ELSE /\ result' = [error |-> "Unknown action: " \o argv[1]]
            /\ pc' = "auth_print"
            /\ UNCHANGED <<stdout, stderr, exitCode>>

\* browser = p.chromium.launch(headless=False); context = browser.new_context();
\* page = context.new_page()
authenticate_launch ==
    /\ pc = "authenticate_launch"
    /\ OpenBrowser("authenticate_goto")
    /\ UNCHANGED <<argv, stateFile, runVars, persisted, flowVars, raceVars>>

\* page.goto(...), then the instructions are printed
authenticate_goto ==
    /\ pc = "authenticate_goto"
    /\ UNCHANGED <<argv, stateFile, context, runVars, persisted, flowVars, raceVars>>
    /\ calls' = calls \cup {"goto"}
    /\ \E raises \in BOOLEAN :
        IF raises
        THEN /\ browser' = "stopped"
             /\ Uncaught
        ELSE /\ stdout' = stdout \o Banner
             /\ pc' = "authenticate_input"
             /\ UNCHANGED <<browser, result, stderr, exitCode>>

\* input(): returns when the operator presses ENTER; EOFError when stdin ends
authenticate_input ==
    /\ pc = "authenticate_input"
    /\ UNCHANGED <<argv, stateFile, context, calls, runVars, persisted, flowVars, raceVars>>
    /\ \E eof \in BOOLEAN :
        IF eof
        THEN /\ browser' = "stopped"
             /\ Uncaught
        ELSE /\ pc' = "authenticate_capture"
             /\ UNCHANGED <<browser, result, stdout, stderr, exitCode>>

\* context.storage_state(path=str(state_path))
authenticate_capture ==
    /\ pc = "authenticate_capture"
    /\ UNCHANGED <<argv, context, runVars, flowVars, raceVars>>
    /\ calls' = calls \cup {"storage_state"}
    /\ \E raises \in BOOLEAN, captured \in CapturedStates :
        IF raises
        THEN /\ browser' = "stopped"
             /\ Uncaught
             /\ UNCHANGED <<stateFile, persisted>>
        ELSE /\ stateFile' = captured
             /\ persisted' = TRUE
             /\ pc' = "authenticate_close"
             /\ UNCHANGED <<browser, result, stdout, stderr, exitCode>>

\* success reported only when the captured state holds a Google cookie
authenticate_close_checked ==
    /\ pc = "authenticate_close"
    /\ UNCHANGED <<argv, stateFile, context, runVars, persisted, flowVars, raceVars>>
    /\ calls' = calls \cup {"close"}
    /\ \E raises \in BOOLEAN :
        IF raises
        THEN /\ browser' = "stopped"
             /\ Uncaught
        ELSE /\ browser' = "closed"
             /\ result' = IF check_auth_status(stateFile).authenticated
                           THEN [success |-> TRUE,
                                 message |-> "Authentication state saved to state.json",
                                 state_path |-> "state.json"]
                           ELSE ErrorResult("Login not completed")
             /\ pc' = "auth_print"
             /\ UNCHANGED <<stdout, stderr, exitCode>>

\* browser.close(); return {"success": True, ...}
authenticate_close ==
    /\ pc = "authenticate_close"
    /\ UNCHANGED <<argv, stateFile, context, runVars, persisted, flowVars, raceVars>>
    /\ calls' = calls \cup {"close"}
    /\ \E raises \in BOOLEAN :
        IF raises
        THEN /\ browser' = "stopped"
             /\ Uncaught
        ELSE /\ browser' = "closed"
             /\ result' = [success |-> TRUE,
                           message |-> "Authentication state saved to state.json",
                           state_path |-> "state.json"]
             /\ pc' = "auth_print"
             /\ UNCHANGED <<stdout, stderr, exitCode>>

auth_print ==
    /\ pc = "auth_print"
    /\ stdout' = Append(stdout, Json(result))
    /\ exitCode' = << 0 >>
    /\ pc' = "exit"
    /\ UNCHANGED <<argv, stateFile, browser, context, calls, runVars, persisted,
                   result, stderr, flowVars, raceVars>>

\* the caller runs the script again; state.json is what the last run left
auth_again ==
    /\ pc = "exit"
    /\ argv' \in AuthArgvs
    /\ pc' = "auth_import"
    /\ browser' = "none"
    /\ context' = FALSE
    /\ calls' = {}
    /\ result' = NoResult
    /\ stdout' = << >>
    /\ stderr' = FALSE
    /\ exitCode' = NoExit
    /\ UNCHANGED <<stateFile, runVars, persisted, flowVars, raceVars>>

NextAuth ==
    \/ auth_import
    \/ auth_main
    \/ authenticate_launch
    \/ authenticate_goto
    \/ authenticate_input
    \/ authenticate_capture
    \/ authenticate_close
    \/ auth_print
    \/ auth_again

SpecAuth == InitAuth /\ [][NextAuth]_vars

(***************************************************************************)
(* The flows as functions of the page: specification SpecSource.           *)
(***************************************************************************)
FlowRequest(type, value) == [type |-> type, value |-> value]

FlowInputs ==
    {[req |-> FlowRequest("website", "u1"), page |-> pg] : pg \in Pages(WebsiteSelectors)}
    \cup
    {[req |-> FlowRequest("file", v), page |-> pg] :
        v \in {"p1", "p2"}, pg \in Pages(FileSelectors)}
    \cup
    {[req |-> FlowRequest("create", n), page |-> pg] :
        n \in NotebookNames, pg \in Pages(CreateSelectors)}

InitSource ==
    /\ \E in \in FlowInputs :
        /\ req = in.req
        /\ page = in.page
    /\ trace = << >>
    /\ outcome = NoResult
    /\ pc = "flow_call"
    /\ argv = << >>
    /\ stateFile = NoFile
    /\ ProcessStart
    /\ RaceIdle

processVars ==
    <<argv, stateFile, browser, context, calls, runVars, persisted, result,
      stdout, stderr, exitCode>>

Flow(type, r) ==
    /\ pc = "flow_call"
    /\ req.type = type
    /\ trace' = r.trace
    /\ outcome' = [ret |-> r.ret, raised |-> r.raised]
    /\ pc' = "flow_done"
    /\ UNCHANGED <<page, req, processVars, raceVars>>

flow_add_website_source == Flow("website", add_website_source(page, req.value))

flow_add_file_source == Flow("file", add_file_source(page, req.value))

flow_create_notebook == Flow("create", create_notebook(page, req.value))

NextSource ==
    \/ flow_add_website_source
    \/ flow_add_file_source
    \/ flow_create_notebook

SpecSource == InitSource /\ [][NextSource]_vars

(***************************************************************************)
(* Two upload invocations on the same state.json: specification SpecRace.  *)
(* Each invocation is a process of its own; state.json is all they share.  *)
(***************************************************************************)
Invocations == {"first", "second"}

Invocation(at, loaded, session, res) ==
    [pc |-> at, loaded |-> loaded, session |-> session, result |-> res]

InitRace ==
    /\ stateFile \in {NoFile} \cup ReplayStates
    /\ procs = [p \in Invocations |-> Invocation("upload_sources", NoFile, NoFile, NoResult)]
    /\ writes = << >>
    /\ argv = << >>
    /\ pc = "race"
    /\ ProcessStart
    /\ FlowIdle

singleVars ==
    <<argv, pc, browser, context, calls, runVars, persisted, result, stdout,
      stderr, exitCode, flowVars>>

\* if not STATE_PATH.exists(): return {...}
race_enter(p) ==
    /\ procs[p].pc = "upload_sources"
    /\ procs' = [procs EXCEPT ![p] =
          IF ~ state_exists(stateFile)
          THEN [@ EXCEPT !.pc = "done", !.result = NotAuthenticatedResult]
          ELSE [@ EXCEPT !.pc = "upload_open"]]
    /\ UNCHANGED <<stateFile, writes, singleVars>>

\* launch; new_context(storage_state=str(STATE_PATH)) reads state.json; new_page
race_open(p) ==
    /\ procs[p].pc = "upload_open"
    /\ \E raises \in {"none", "launch", "new_context", "new_page"} :
        procs' = [procs EXCEPT ![p] =
            CASE raises = "none" ->
                   [@ EXCEPT !.pc = "upload_run", !.loaded = stateFile,
                             !.session = stateFile]
              [] raises = "new_page" ->
                   [@ EXCEPT !.pc = "aborted", !.loaded = stateFile,
                             !.session = stateFile]
              [] OTHER -> [@ EXCEPT !.pc = "aborted"]]
    /\ UNCHANGED <<stateFile, writes, singleVars>>

\* the try block: the session of the browser context moves on while the
\* notebook is resolved and the sources are added; an exception is caught
race_run(p) ==
    /\ procs[p].pc = "upload_run"
    /\ \E session \in ReplayStates, ok \in BOOLEAN :
        procs' = [procs EXCEPT ![p] =
            [@ EXCEPT !.pc = "upload_finally", !.session = session,
                      !.result = IF ok THEN [success |-> TRUE]
                                 ELSE ErrorResult(ErrorMessage)]]
    /\ UNCHANGED <<stateFile, writes, singleVars>>

\* the state is written only if state.json is still what this run loaded
race_finally_if_unchanged(p) ==
    /\ procs[p].pc = "upload_finally"
    /\ \E raises \in {"none", "storage_state", "close"} :
        /\ IF raises = "storage_state" \/ stateFile # procs[p].loaded
           THEN UNCHANGED <<stateFile, writes>>
           ELSE /\ stateFile' = procs[p].session
                /\ writes' = Append(writes, [by |-> p, state |-> procs[p].session])
        /\ procs' = [procs EXCEPT ![p].pc = IF raises = "none" THEN "done" ELSE "aborted"]
    /\ UNCHANGED singleVars

\* finally: context.storage_state(path=str(STATE_PATH)); browser.close()
race_finally(p) ==
    /\ procs[p].pc = "upload_finally"
    /\ \E raises \in {"none", "storage_state", "close"} :
        /\ IF raises = "storage_state"
           THEN UNCHANGED <<stateFile, writes>>
           ELSE /\ stateFile' = procs[p].session
                /\ writes' = Append(writes, [by |-> p, state |-> procs[p].session])
        /\ procs' = [procs EXCEPT ![p].pc = IF raises = "none" THEN "done" ELSE "aborted"]
    /\ UNCHANGED singleVars

race_step(p) ==
    \/ race_enter(p)
    \/ race_open(p)
    \/ race_run(p)
    \/ race_finally(p)

NextRace == \E p \in Invocations : race_step(p)

SpecRace == InitRace /\ [][NextRace]_vars

(***************************************************************************)
(* Claims.                                                                 *)
(***************************************************************************)
IsUpload == Len(argv) >= 3 /\ argv[1] = "upload"
IsList == Len(argv) >= 1 /\ argv[1] = "list"

\* C1: for list and upload alike, once the browser context was opened, an
\* operation that returns to main has persisted the session state to
\* state.json and has closed the browser.
C1_PersistsAndClosesOnReturn ==
    (pc = "print" /\ context) => (persisted /\ browser = "closed")

\* C2: with no state file, list and upload return the not-authenticated
\* result, no browser capability is ever called (no launch, no context, no
\* navigation) and the state file is not created.
C2_NoStateNoBrowser ==
    (stateFile = NoFile) =>
        /\ calls = {}
        /\ browser = "none"
        /\ ~ context
        /\ ~ persisted
        /\ pc \in {"import", "main", "upload_sources", "list_notebooks", "print", "exit"}
        /\ (pc = "print" /\ (IsUpload \/ IsList)) => result = NotAuthenticatedResult
        /\ (pc = "exit" /\ exitCode = << 0 >> /\ (IsUpload \/ IsList))
               => stdout = << Json(NotAuthenticatedResult) >>

C2_Witness ==
    /\ stateFile = NoFile
    /\ pc = "exit"
    /\ IsUpload
    /\ sources = JsonList(<< Source("website", "u1"), Source("file", "p1") >>)
    /\ stdout = << Json(NotAuthenticatedResult) >>
    /\ calls = {}

WellFormedSources ==
    /\ sources.kind = "list"
    /\ \A i \in 1..Len(sources.items) : sources.items[i].t = "dict"

ItemValue(i) == Get(sources.items[i].d, "value", "")
ItemType(i) == Get(sources.items[i].d, "type", "website")

\* the notebook was resolved and the loop over the sources was entered
LoopEntered == IsUpload /\ idx >= 1

\* C3: in an upload over N source requests whose notebook was resolved, a
\* failing request does not end the batch: while the loop runs every
\* request before the current one was attempted, after it all N were; and
\* if exactly request i failed, uploaded has the N-1 other values, failed
\* has one entry, with request i's value and a non-empty error, and that is
\* the result returned and printed.
C3_BatchContinuesPastFailure ==
    (LoopEntered /\ WellFormedSources) =>
        LET n == Len(sources.items)
            others(i) == SelectSeq([j \in 1..n |-> j], LAMBDA j : j # i)
        IN  /\ Len(attempts) = IF pc = "upload_loop" THEN idx - 1 ELSE n
            /\ \A k \in 1..Len(attempts) : attempts[k].index = k
            /\ pc # "upload_loop" =>
                \A i \in 1..n :
                    (/\ ~ attempts[i].ok
                     /\ \A j \in 1..n : j # i => attempts[j].ok)
                    => /\ Len(results.uploaded) = n - 1
                       /\ results.uploaded =
                              [k \in 1..(n - 1) |-> ItemValue(others(i)[k])]
                       /\ Len(results.failed) = 1
                       /\ results.failed[1].value = ItemValue(i)
                       /\ results.failed[1].error # ""
                       /\ pc = "print" => result = results
                       /\ (pc = "exit" /\ exitCode = << 0 >>)
                              => stdout = << Json(results) >>

C3_Witness ==
    /\ pc = "exit"
    /\ exitCode = << 0 >>
    /\ sources = JsonList(<< Source("website", "u1"), Source("file", "p1") >>)
    /\ attempts = << [index |-> 1, ok |-> FALSE], [index |-> 2, ok |-> TRUE] >>
    /\ stdout[1].value.uploaded = << "p1" >>
    /\ stdout[1].value.failed =
           << [value |-> "u1", error |-> "Could not find Website option"] >>

HasLists(r) == {"uploaded", "failed"} \subseteq DOMAIN r

\* C4 as stated: every UploadResult returned with the uploaded and failed
\* lists has len(uploaded) + len(failed) = N.
C4_EveryResultCoversAllSources ==
    (pc = "print" /\ IsUpload /\ WellFormedSources /\ HasLists(result)) =>
        Len(result.uploaded) + Len(result.failed) = Len(sources.items)

\* C4, amended: no source is ever attempted twice and every attempt adds
\* exactly one entry to exactly one of uploaded and failed; an UploadResult
\* returned with success = true covers every one of the N sources, each
\* attempted exactly once, so len(uploaded) + len(failed) = N.
C4_SuccessfulResultCoversAllSources ==
    /\ \A i, j \in 1..Len(attempts) : attempts[i].index = attempts[j].index => i = j
    /\ HasLists(results) =>
        /\ Len(results.uploaded) + Len(results.failed) = Len(attempts)
        /\ Len(results.uploaded) = Cardinality({i \in 1..Len(attempts) : attempts[i].ok})
    /\ (pc = "print" /\ IsUpload /\ HasLists(result) /\ result.success) =>
        /\ sources.kind = "list"
        /\ Len(result.uploaded) + Len(result.failed) = Len(sources.items)
        /\ {attempts[i].index : i \in 1..Len(attempts)} = 1..Len(sources.items)

C4_Witness ==
    /\ pc = "print"
    /\ IsUpload
    /\ HasLists(result)
    /\ result.success
    /\ Len(sources.items) = 2
    /\ Len(result.uploaded) = 1
    /\ Len(result.failed) = 1

\* the sources argument is no JSON and names no readable JSON file
MalformedInput ==
    /\ IsUpload
    /\ ~ argv[3].json
    /\ (os_path_exists(argv[3].text) => ~ FileContent(argv[3].text).json)

\* a file-type source whose local path does not exist is among the sources
MissingLocalFile ==
    /\ IsUpload
    /\ WellFormedSources
    /\ \E i \in 1..Len(sources.items) :
           ItemType(i) = "file" /\ ~ (ItemValue(i) \in ExistingPaths)

NoBrowserInteraction ==
    calls = {} /\ browser = "none" /\ ~ context /\ ~ created /\ ~ persisted

\* C5 as stated, its first half: whenever a precondition error is present
\* (no state file, a state file without an identity-provider cookie, a
\* file-type source whose path is missing, malformed input) no browser
\* interaction takes place, no notebook is created and the state file is
\* not overwritten.
C5_PreconditionErrorsBeforeBrowser ==
    (/\ IsUpload \/ IsList
     /\ pc \notin {"import", "main"}
     /\ \/ stateFile = NoFile
        \/ (~ persisted /\ ~ check_auth_status(stateFile).authenticated)
        \/ MalformedInput
        \/ MissingLocalFile)
    => NoBrowserInteraction

\* C5, amended: only a missing state file and malformed sources input are
\* detected before any browser interaction and without side effects; the
\* first is reported as {success:false, error}, the second, when the
\* argument names no existing file, as {error:"Invalid sources JSON"} with
\* exit status 1.  State-file content is not inspected by list and upload.
\* A missing local file is detected when its source is reached in the loop:
\* it is reported as that source's entry of failed, with the error
\* "File not found: <path>", and never as uploaded.
C5_OnlyAbsentStateAndBadInputBeforeBrowser ==
    /\ ((IsUpload \/ IsList) /\ stateFile = NoFile) =>
        /\ NoBrowserInteraction
        /\ pc = "print" => (result.success = FALSE /\ "error" \in DOMAIN result)
    /\ MalformedInput =>
        /\ NoBrowserInteraction
        /\ pc \in {"import", "main", "exit"}
        /\ (pc = "exit" /\ ~ stderr /\ ~ os_path_exists(argv[3].text)) =>
            /\ exitCode = << 1 >>
            /\ stdout \in
                 { << Json([error |-> "Invalid sources JSON"]) >>,
                   << Json(PlaywrightMissing) >> }
    /\ (LoopEntered /\ WellFormedSources) =>
        \A k \in 1..Len(attempts) :
            (ItemType(k) = "file" /\ ~ (ItemValue(k) \in ExistingPaths)) =>
                /\ ~ attempts[k].ok
                /\ \E j \in 1..Len(results.failed) :
                       results.failed[j] =
                           [value |-> ItemValue(k),
                            error |-> "File not found: " \o ItemValue(k)]

\* a missing local file reported from inside the loop, the browser long
\* launched, the notebook created and the state file overwritten
C5_Witness ==
    /\ pc = "print"
    /\ sources = JsonList(<< Source("file", "p2") >>)
    /\ result.success
    /\ result.failed = << [value |-> "p2", error |-> "File not found: p2"] >>
    /\ created
    /\ persisted
    /\ browser = "closed"

\* C6: a file-type source whose path does not exist makes no call on the
\* page at all (no query, no click), whatever the page holds, and returns
\* {success: false, error: "File not found: <path>"}.
C6_MissingFileTouchesNothing ==
    (pc = "flow_done" /\ req.type = "file" /\ ~ (req.value \in ExistingPaths)) =>
        /\ trace = << >>
        /\ outcome.ret = [success |-> FALSE, error |-> "File not found: " \o req.value]
        /\ ~ outcome.raised

C6_Witness ==
    /\ pc = "flow_done"
    /\ req = FlowRequest("file", "p2")
    /\ page.present = FileSelectors
    /\ page.raiseAt = 1
    /\ trace = << >>
    /\ outcome.ret.error = "File not found: p2"

SameLetter(c, d) ==
    c = d \/ {c, d} \in {{"M", "m"}, {"Y", "y"}, {"U", "u"}, {"N", "n"}}

EqualIgnoringCase(a, b) ==
    Len(a) = Len(b) /\ \A i \in 1..Len(a) : SameLetter(a[i], b[i])

\* C7: once the resolver has run, if some listed title equals the requested
\* name ignoring case, the first such notebook in list order is the one
\* clicked and create_notebook is not called in that run; creation is
\* called only when no listed title matches.
C7_FirstMatchSelectedNeverCreated ==
    (IsUpload /\ pc # "upload_resolve") =>
        LET m == {i \in 1..Len(notebooks) : EqualIgnoringCase(notebooks[i], argv[2])}
        IN  /\ m # {} =>
                /\ target = Min(m)
                /\ "click" \in calls
                /\ ~ created
            /\ created => (m = {} /\ target = 0)

C7_Witness ==
    /\ IsUpload
    /\ pc = "upload_loop"
    /\ argv[2] = << "m", "Y" >>
    /\ notebooks = << Untitled, << "M", "y" >> >>
    /\ target = 2
    /\ ~ created

\* the file parses and has the shape check_auth_status reads
WellShaped(f) ==
    /\ f.kind = "json"
    /\ f.t = "dict"
    /\ \A i \in 1..Len(f.cookies) : f.cookies[i].t \in {"dict", "nodomain"}

MatchingCookies(f) ==
    {i \in 1..Len(f.cookies) :
        f.cookies[i].t = "dict" /\ Contains(f.cookies[i].domain, Marker)}

\* C8: check never raises; it returns authenticated = true, with
\* cookie_count the exact number of cookies whose domain contains the
\* marker, iff state.json exists, parses, is well shaped and has at least
\* one such cookie; otherwise authenticated = false with a message.  This
\* holds in particular for a file that storage_state has just written.
C8_CheckCountsMatchingCookies ==
    (argv = << "check" >>) =>
        /\ ~ stderr
        /\ pc = "exit" => Len(stdout) = 1
        /\ pc = "auth_print" =>
            IF WellShaped(stateFile) /\ MatchingCookies(stateFile) # {}
            THEN result = [authenticated |-> TRUE,
                           message |-> "Authentication state found.",
                           cookie_count |-> Cardinality(MatchingCookies(stateFile))]
            ELSE /\ result.authenticated = FALSE
                 /\ DOMAIN result = {"authenticated", "message"}

C8_Witness ==
    /\ argv = << "check" >>
    /\ pc = "auth_print"
    /\ persisted
    /\ stateFile = SessionState(<< Cookie("dict", OtherDomain),
                                   Cookie("dict", GoogleDomain) >>)
    /\ result.authenticated
    /\ result.cookie_count = 1

Located(strategies) == \E i \in 1..Len(strategies) : strategies[i] \in page.present

Touched == {trace[i].arg : i \in 1..Len(trace)}

\* C9 as stated: a website source succeeds iff each of the three controls
\* was located by one of its strategies; a missing control stops the flow
\* there and the error names it.
C9_SuccessIffAllLocated ==
    (pc = "flow_done" /\ req.type = "website") =>
        /\ outcome.ret.success <=>
              (/\ Located(AddSourceStrategies)
               /\ Located(WebsiteStrategies)
               /\ Located(UrlInputStrategies))
        /\ ~ Located(AddSourceStrategies) =>
              outcome.ret.error = "Could not find Add Source button"
        /\ (Located(AddSourceStrategies) /\ ~ Located(WebsiteStrategies)) =>
              outcome.ret.error = "Could not find Website option"

\* C9, amended: a website source succeeds iff each of the three controls
\* was located by one of its strategies and no call on the page raised.  A
\* control missing under all its strategies stops the flow at that step: no
\* later control is queried, clicked or filled, and, unless an earlier call
\* raised (the error is then the exception's message), the error names the
\* missing control.
C9_SuccessIffAllLocatedAndNoRaise ==
    (pc = "flow_done" /\ req.type = "website") =>
        LET add == Located(AddSourceStrategies)
            web == Located(WebsiteStrategies)
            url == Located(UrlInputStrategies)
            named == IF ~ add THEN "Could not find Add Source button"
                     ELSE IF ~ web THEN "Could not find Website option"
                     ELSE "Could not find URL input"
        IN  /\ outcome.ret.success <=> (add /\ web /\ url /\ ~ outcome.raised)
            /\ outcome.ret.success => outcome.ret = [success |-> TRUE, url |-> req.value]
            /\ ~ (add /\ web /\ url) =>
                /\ Ops(trace) \cap {"fill", "press"} = {}
                /\ ~ outcome.raised => outcome.ret = Failure(named)
                /\ outcome.raised => outcome.ret = Failure(ErrorMessage)
            /\ ~ add =>
                /\ Touched \subseteq Range(AddSourceStrategies)
                /\ "click" \notin Ops(trace)
            /\ (add /\ ~ web) =>
                Touched \subseteq Range(AddSourceStrategies) \cup Range(WebsiteStrategies)

C9_Witness ==
    /\ pc = "flow_done"
    /\ req.type = "website"
    /\ page.present = {AddSourceStrategies[2], WebsiteStrategies[1]}
    /\ page.raiseAt = 0
    /\ outcome.ret = Failure("Could not find URL input")
    /\ Len(trace) = 7

\* C10: an invocation that has terminated has written exactly one JSON
\* object to standard output.
C10_ExactlyOneJsonObject ==
    (pc = "exit") =>
        Cardinality({i \in 1..Len(stdout) : stdout[i].kind = "json"}) = 1

\* C11: for upload's sources argument: if it parses as JSON its value is
\* the sources; if not, it is taken as a path and the content of that file
\* is parsed instead; if both fail (no such path, or the content is not
\* JSON) the invocation prints {error: "Invalid sources JSON"}, exits
\* non-zero and launches no browser.
C11_SourcesFallBackToFileOrStructuredError ==
    (/\ IsUpload
     /\ Len(argv) = 3
     /\ pc \notin {"import", "main"}
     /\ stdout # << Json(PlaywrightMissing) >>) =>
        LET a == argv[3]
        IN  IF a.json
            THEN sources = a.value
            ELSE IF a.text \in ExistingPaths /\ FileContent(a.text).json
            THEN sources = FileContent(a.text).value
            ELSE /\ pc = "exit"
                 /\ stdout = << Json([error |-> "Invalid sources JSON"]) >>
                 /\ exitCode = << 1 >>
                 /\ browser = "none"
                 /\ calls = {}

\* C12: once list or upload has started on the browser, an exception of
\* the automation capability (at launch, context restore, page creation,
\* navigation, the operation, or the final state capture) never leaves the
\* operation: the operation returns a result, which is printed with exit
\* status 0, and a result that reports such an exception
\* ({success: false, error: message}) is returned with the browser closed
\* and the state persisted.
C12_ExceptionsBecomeResults ==
    ("launch" \in calls /\ pc \in {"print", "exit"}) =>
        /\ "success" \in DOMAIN result
        /\ pc = "exit" => exitCode = << 0 >>
        /\ (~ result.success /\ result.error = ErrorMessage) =>
              (browser = "closed" /\ persisted)

\* C13: in upload, when no listed notebook matches and the create control
\* is located by neither strategy (create_notebook ran and nothing was
\* ever clicked), the whole operation fails: results is success = false
\* with error "Could not create notebook", uploaded and failed are empty,
\* no source is attempted, no notebook is selected instead, and the result
\* is returned with the browser closed.
C13_NoCreateControlFailsOperation ==
    (IsUpload /\ created /\ "click" \notin calls) =>
        /\ target = 0
        /\ results = [success |-> FALSE, notebook |-> argv[2],
                      uploaded |-> << >>, failed |-> << >>,
                      error |-> "Could not create notebook"]
        /\ attempts = << >>
        /\ idx = 0
        /\ calls \cap {"fill", "press", "set_input_files"} = {}
        /\ pc \in {"upload_finally", "print", "exit"}
        /\ pc = "print" => (result = results /\ browser = "closed")

C13_Witness ==
    /\ IsUpload
    /\ created
    /\ "click" \notin calls
    /\ ~ stderr
    /\ sources.kind = "list"
    /\ Len(sources.items) = 2
    /\ pc = "print"
    /\ browser = "closed"
    /\ result.error = "Could not create notebook"
    /\ result.uploaded = << >>
    /\ result.failed = << >>

IsFileFlow == pc = "flow_done" /\ req.type = "file" /\ req.value \in ExistingPaths

\* C14 as stated, for runs in which no call on the page raises: for a file
\* source with an existing path, each of the three controls (add-source
\* button, Upload option, file input) that is located by none of its
\* strategies makes the outcome a failure, the flow stops before the later
\* steps, and the add-source button and the file input are named in the
\* error.
C14_EveryMissingControlFails ==
    (IsFileFlow /\ ~ outcome.raised) =>
        /\ ~ Located(AddSourceStrategies) =>
              outcome.ret = Failure("Could not find Add Source button")
        /\ (Located(AddSourceStrategies) /\ ~ Located(UploadStrategies)) =>
              /\ ~ outcome.ret.success
              /\ Touched \cap Range(FileInputStrategies) = {}
        /\ (/\ Located(AddSourceStrategies)
            /\ Located(UploadStrategies)
            /\ ~ Located(FileInputStrategies)) =>
              outcome.ret = Failure("Could not find file input")

\* C14, amended: for a file source with an existing path, the outcome is
\* success iff the add-source button and the file input were located and no
\* call on the page raised.  A missing add-source button stops the flow at
\* that step (nothing is clicked, no later control is queried) and a
\* missing file input stops it before any path is submitted; unless a call
\* raised (the error is then the exception's message) the error names that
\* control.  A missing Upload option is no failure: its click is skipped
\* and the flow goes on to the file input.
C14_AddButtonAndFileInputRequired ==
    IsFileFlow =>
        LET add == Located(AddSourceStrategies)
            upl == Located(UploadStrategies)
            inp == Located(FileInputStrategies)
        IN  /\ outcome.ret.success <=> (add /\ inp /\ ~ outcome.raised)
            /\ outcome.ret.success => outcome.ret = [success |-> TRUE, file |-> req.value]
            /\ outcome.raised => outcome.ret = Failure(ErrorMessage)
            /\ ~ add =>
                /\ Touched \subseteq Range(AddSourceStrategies)
                /\ "click" \notin Ops(trace)
                /\ ~ outcome.raised =>
                      outcome.ret = Failure("Could not find Add Source button")
            /\ (add /\ ~ inp) =>
                /\ "set_input_files" \notin Ops(trace)
                /\ ~ outcome.raised => outcome.ret = Failure("Could not find file input")
            /\ (add /\ ~ upl /\ ~ outcome.raised) =>
                /\ Range(FileInputStrategies) \subseteq Touched
                /\ \A i \in 1..Len(trace) :
                      trace[i].op = "click" => trace[i].arg \in Range(AddSourceStrategies)

C14_Witness ==
    /\ IsFileFlow
    /\ page.present = {AddSourceStrategies[1], FileInputStrategies[1]}
    /\ ~ outcome.raised
    /\ outcome.ret = [success |-> TRUE, file |-> "p1"]
    /\ "set_input_files" \in Ops(trace)

\* the logical UI targets and their strategies
StrategyLists ==
    { AddSourceStrategies, WebsiteStrategies, UrlInputStrategies, UploadStrategies,
      FileInputStrategies, CreateStrategies, NameInputStrategies }

QueriesOf(selector) ==
    {i \in 1..Len(trace) : trace[i].op = "query_selector" /\ trace[i].arg = selector}

\* C15: in every flow, for each UI target: no strategy is queried more
\* than once; a strategy is queried only after every earlier strategy of
\* the target was queried and returned no match; an element that is acted
\* on (click, fill, press, set_input_files) is the match of the first
\* strategy that has one, and was queried before; when no strategy
\* matches, nothing is acted on for that target.
C15_StrategiesInOrderFirstMatchUsed ==
    (pc = "flow_done") =>
        \A S \in StrategyLists :
            /\ \A k \in 1..Len(S) :
                /\ Cardinality(QueriesOf(S[k])) <= 1
                /\ \A i \in QueriesOf(S[k]) : \A j \in 1..(k - 1) :
                      /\ S[j] \notin page.present
                      /\ \E h \in QueriesOf(S[j]) : h < i
            /\ \A i \in 1..Len(trace) :
                  (trace[i].op # "query_selector" /\ trace[i].arg \in Range(S)) =>
                      /\ trace[i].arg \in page.present
                      /\ \E k \in 1..Len(S) :
                            /\ trace[i].arg = S[k]
                            /\ \A j \in 1..(k - 1) : S[j] \notin page.present
                            /\ \E h \in QueriesOf(S[k]) : h < i

C15_Witness ==
    /\ pc = "flow_done"
    /\ req.type = "website"
    /\ page.present =
          {AddSourceStrategies[2], WebsiteStrategies[1], WebsiteStrategies[2],
           UrlInputStrategies[2]}
    /\ ~ outcome.raised
    /\ outcome.ret.success
    /\ Len(trace) = 9
    /\ QueriesOf(WebsiteStrategies[2]) = {}
    /\ QueriesOf(UrlInputStrategies[2]) # {}

\* C16: when the wait for the first notebook card expires, the notebook
\* list is empty and nothing is reported as an error: list returns and
\* prints {success: true, notebooks: [], count: 0}; upload goes on with
\* results still success = true and no error, selects no notebook and
\* calls create_notebook, as for an empty list; the timeout's message is
\* never the error of the result.
C16_WaitTimeoutIsEmptyList ==
    waitExpired =>
        /\ notebooks = << >>
        /\ IsList =>
            /\ result = [success |-> TRUE, notebooks |-> << >>, count |-> 0]
            /\ pc \in {"list_finally", "print", "exit"}
            /\ (pc = "exit" /\ exitCode = << 0 >>) => stdout = << Json(result) >>
        /\ IsUpload =>
            /\ pc = "upload_resolve" =>
                  results = [success |-> TRUE, notebook |-> argv[2],
                             uploaded |-> << >>, failed |-> << >>]
            /\ pc # "upload_resolve" =>
                /\ target = 0
                /\ created
                /\ ("error" \in DOMAIN results) => results.error # ErrorMessage

C16_Witness ==
    /\ IsList
    /\ waitExpired
    /\ pc = "exit"
    /\ browser = "closed"
    /\ stdout = << Json([success |-> TRUE, notebooks |-> << >>, count |-> 0]) >>

IsAuthenticate == Len(argv) >= 1 /\ argv[1] = "authenticate"

\* what holds of every state of an authenticate run
AuthenticateOrder ==
    IsAuthenticate =>
        /\ browser # "none" => "launch" \in calls
        /\ (\E i \in 1..Len(stdout) : stdout[i].kind = "text") =>
              ("goto" \in calls /\ "launch" \in calls)
        /\ "storage_state" \in calls =>
            /\ SubSeq(stdout, 1, Len(Banner)) = Banner
            /\ pc \in {"authenticate_close", "auth_print", "exit"}
        /\ ("close" \in calls \/ browser = "closed") => "storage_state" \in calls
        /\ pc = "auth_print" =>
            /\ "storage_state" \in calls
            /\ browser = "closed"
            /\ result = [success |-> TRUE,
                         message |-> "Authentication state saved to state.json",
                         state_path |-> "state.json"]

\* what holds of every step of an authenticate run
AuthenticateStep ==
    IsAuthenticate =>
        /\ stateFile' # stateFile =>
              (pc = "authenticate_capture" /\ pc' = "authenticate_close")
        /\ pc = "authenticate_input" =>
              \/ pc' = "authenticate_capture" /\ browser' = "open" /\ ~ stderr'
              \/ pc' = "exit" /\ stderr' /\ "storage_state" \notin calls'
        /\ pc = "authenticate_capture" => "storage_state" \in calls'
        /\ (pc = "authenticate_close" /\ pc' = "auth_print") => browser' = "closed"

\* C17: an authenticate run goes launch, navigate and prompt, wait for
\* the operator, capture, close, in that order: state.json is written only
\* by the step that follows the operator's confirmation, never before; the
\* wait ends only with the confirmation (or the end of the input, which
\* aborts the run), never by time; after the confirmation the state is
\* captured without any test of its content and the browser is closed, and
\* the run then returns success = true whatever was captured.
C17_AuthenticateCapturesAfterConfirmation ==
    []AuthenticateOrder /\ [][AuthenticateStep]_vars

C17_Witness ==
    /\ IsAuthenticate
    /\ pc = "auth_print"
    /\ browser = "closed"
    /\ result.success
    /\ stateFile = SessionState(<< Cookie("dict", OtherDomain) >>)
    /\ ~ check_auth_status(stateFile).authenticated

\* C18: during an authenticate run nothing but the JSON result object is
\* written to standard output: every item on it is a JSON object, and
\* there is at most one.
C18_StdoutCarriesOnlyTheResult ==
    IsAuthenticate =>
        /\ \A i \in 1..Len(stdout) : stdout[i].kind = "json"
        /\ Len(stdout) <= 1

Ended(p) == procs[p].pc \in {"done", "aborted"}

\* C19: of two concurrent upload invocations, none waits for the other (an
\* invocation that has not ended can always take its next step), each
\* persist writes the invocation's own session without looking at what the
\* file holds, at most once per invocation, and state.json holds what the
\* latest write wrote: after both have ended, the state of the invocation
\* that persisted last.
C19_LastWriterWins ==
    (pc = "race") =>
        /\ \A p \in Invocations : ~ Ended(p) => ENABLED race_step(p)
        /\ \A i \in 1..Len(writes) :
            /\ writes[i].state = procs[writes[i].by].session
            /\ Ended(writes[i].by)
            /\ \A j \in 1..Len(writes) : writes[j].by = writes[i].by => j = i
        /\ writes # << >> => stateFile = writes[Len(writes)].state
        /\ \A p \in Invocations : procs[p].pc = "done" =>
              \/ procs[p].result = NotAuthenticatedResult
              \/ \E i \in 1..Len(writes) : writes[i].by = p

C19_Witness ==
    /\ pc = "race"
    /\ \A p \in Invocations : procs[p].pc = "done"
    /\ procs["first"].loaded = procs["second"].loaded
    /\ Len(writes) = 2
    /\ writes[1].by = "second"
    /\ writes[2].by = "first"
    /\ writes[1].state # writes[2].state
    /\ writes[1].state # procs["first"].loaded
    /\ stateFile = writes[2].state

\* C20: in every result that upload returns, success is false iff an
\* error field is present; the error is then the missing session, the
\* notebook that could not be created, or the message of an exception;
\* a run whose loop went through all sources returns success = true and no
\* error whatever the sources' outcomes were, and every step of the loop
\* leaves the flag as it is unless an exception ends the loop.
C20_SuccessFlagIgnoresSourceFailures ==
    IsUpload =>
        /\ pc = "print" =>
            /\ ~ result.success <=> "error" \in DOMAIN result
            /\ ~ result.success =>
                  result.error \in
                      { NotAuthenticatedResult.error, "Could not create notebook",
                        ErrorMessage, "object is not iterable",
                        "object has no attribute 'get'" }
            /\ (sources.kind = "list" /\ idx = Len(sources.items) + 1) =>
                  /\ result.success
                  /\ Len(result.uploaded) + Len(result.failed) = Len(sources.items)
        /\ (pc \in {"upload_loop", "upload_finally"} /\ attempts # << >>) =>
              \/ results.success
              \/ /\ pc = "upload_finally"
                 /\ "error" \in DOMAIN results
                 /\ results.error = "object has no attribute 'get'"

C20_Witness ==
    /\ IsUpload
    /\ pc = "print"
    /\ Len(sources.items) = 2
    /\ result.success
    /\ "error" \notin DOMAIN result
    /\ result.uploaded = << >>
    /\ Len(result.failed) = 2

====
